---- MODULE Spec2Model ----
(***************************************************************************)
(* The Erc20 ledger contract of src/erc20/lib.rs as a state machine, and   *)
(* (specification SpecLoan) the Loan contract of src/loan/lib.rs calling   *)
(* into it.                                                                *)
(*                                                                         *)
(* State: the contract's storage (creater, name, symbol, total_supply,     *)
(* balances, allowances), the log of events the contract has emitted, the  *)
(* build's overflow-checks setting, the number of messages delivered, and  *)
(* the operation, caller, arguments and return value of the most recent    *)
(* message.  One action per #[ink(message)] that takes &mut self; the      *)
(* read-only messages are operators.                                       *)
(*                                                                         *)
(* Balance is an unsigned integer of Width bits (u128 in the contract).    *)
(* `a + b` and `a - b` on Balance panic when the build has overflow checks *)
(* (cargo test, debug builds, overflow-checks = true) and wrap modulo      *)
(* 2^Width when it has not; the manifest is not part of the sources, so    *)
(* the setting is chosen at deployment and both outcomes are modelled.  A  *)
(* panic traps the message: storage and the event log are rolled back to   *)
(* their values at the start of the message.  A message that returns Err   *)
(* is NOT rolled back: storage keeps whatever the code wrote before the    *)
(* return.                                                                 *)
(***************************************************************************)
EXTENDS Integers, Sequences, FiniteSets, TLC

\* Bits of a Balance in the model (128 in the contract).
Width == 2

\* Number of messages delivered to the contract after its construction.
MaxCalls == 2

Modulus == 2 ^ Width

MaxBalance == Modulus - 1

Balance == 0 .. MaxBalance

\* The identities that call the contract (ink_env::test::default_accounts).
AccountId == {"alice", "bob", "eve"}

\* Option<AccountId>::None.
None == "none"

\* The identity that deploys the contract: the default caller of the tests.
\* Identities are opaque and every message is delivered from every identity,
\* so deploying from another one gives the same behaviours renamed.
Deployers == {"alice"}

\* name and symbol given to the constructor.
Names == {"xDOT"}

Symbols == {"DOT"}

VARIABLES
    creater,          \* Erc20.creater
    name,             \* Erc20.name
    symbol,           \* Erc20.symbol
    total_supply,     \* Erc20.total_supply
    balances,         \* Erc20.balances: a map, absent keys allowed
    allowances,       \* Erc20.allowances: a map keyed by <<owner, spender>>
    events,           \* the events emitted so far, oldest first
    overflow_checks,  \* whether Balance arithmetic panics on overflow
    calls,            \* the number of messages delivered so far
    last,             \* the most recent message: op, caller, args, ret
    owner,                 \* Loan.owner
    base_token_accountid,  \* Loan.base_token_accountid
    borrowings_balance,    \* Loan.borrowings_balance
    total_borrowings       \* Loan.total_borrowings

vars ==
    <<creater, name, symbol, total_supply, balances, allowances, events,
      overflow_checks, calls, last,
      owner, base_token_accountid, borrowings_balance, total_borrowings>>

----------------------------------------------------------------------------
\* StorageHashMap

\* StorageHashMap::get(&k).unwrap_or(&0)
Get(map, k) == IF k \in DOMAIN map THEN map[k] ELSE 0

\* StorageHashMap::insert(k, v)
Insert(map, k, v) ==
    [x \in DOMAIN map \cup {k} |-> IF x = k THEN v ELSE map[x]]

\* StorageHashMap::new()
EmptyMap == [x \in {} |-> 0]

----------------------------------------------------------------------------
\* Events

Transfer(from, to, value) ==
    [event |-> "Transfer", from |-> from, to |-> to, value |-> value]

Approval(owner_, spender, value) ==
    [event |-> "Approval", owner |-> owner_, spender |-> spender, value |-> value]

----------------------------------------------------------------------------
\* Balance arithmetic

\* The value a Balance variable holds for the integer n when nothing panics.
Wrap(n) == n % Modulus

\* Whether the integer n is outside Balance, so that computing it overflows.
Overflows(n) == n < 0 \/ n > MaxBalance

----------------------------------------------------------------------------
\* The contract.  S is the contract's storage together with the event log:
\* [creater, total_supply, balances, allowances, events].  Every &mut self
\* method is an operator from S to [ret, st]: the value returned ("Ok", an
\* Error, or "Panic" when the message trapped) and the storage reached.

Self ==
    [creater |-> creater, total_supply |-> total_supply, balances |-> balances,
     allowances |-> allowances, events |-> events]

Ok == "Ok"

Panic == "Panic"

Error == {"InsufficientBalance", "InsufficientAllowance", "OnlyForCreater"}

balance_of(S, of) == Get(S.balances, of)

allowance(S, owner_, spender) == Get(S.allowances, <<owner_, spender>>)

transfer_from_to_silent(S, from, to, value) ==
    LET from_balance == balance_of(S, from)
        S1 == IF from # None
              THEN [S EXCEPT !.balances = Insert(@, from, Wrap(from_balance - value))]
              ELSE S
        to_balance == balance_of(S1, to)
        S2 == IF to # None
              THEN [S1 EXCEPT !.balances = Insert(@, to, Wrap(to_balance + value))]
              ELSE S1
    IN  IF from # None /\ from_balance < value
        THEN [ret |-> "InsufficientBalance", st |-> S]
        ELSE IF to # None /\ Overflows(to_balance + value) /\ overflow_checks
        THEN [ret |-> Panic, st |-> S1]
        ELSE [ret |-> Ok, st |-> S2]

transfer_from_to_stale_credit(S, from, to, value) ==
    LET from_balance == balance_of(S, from)
        S1 == IF from # None
              THEN [S EXCEPT !.balances = Insert(@, from, Wrap(from_balance - value))]
              ELSE S
        to_balance == balance_of(S, to)
        S2 == IF to # None
              THEN [S1 EXCEPT !.balances = Insert(@, to, Wrap(to_balance + value))]
              ELSE S1
        S3 == [S2 EXCEPT !.events = Append(@, Transfer(from, to, value))]
    IN  IF from # None /\ from_balance < value
        THEN [ret |-> "InsufficientBalance", st |-> S]
        ELSE IF to # None /\ Overflows(to_balance + value) /\ overflow_checks
        THEN [ret |-> Panic, st |-> S1]
        ELSE [ret |-> Ok, st |-> S3]

transfer_from_to(S, from, to, value) ==
    LET from_balance == balance_of(S, from)
        S1 == IF from # None
              THEN [S EXCEPT !.balances = Insert(@, from, Wrap(from_balance - value))]
              ELSE S
        to_balance == balance_of(S1, to)
        S2 == IF to # None
              THEN [S1 EXCEPT !.balances = Insert(@, to, Wrap(to_balance + value))]
              ELSE S1
        S3 == [S2 EXCEPT !.events = Append(@, Transfer(from, to, value))]
    IN  IF from # None /\ from_balance < value
        THEN [ret |-> "InsufficientBalance", st |-> S]
        ELSE IF to # None /\ Overflows(to_balance + value) /\ overflow_checks
        THEN [ret |-> Panic, st |-> S1]
        ELSE [ret |-> Ok, st |-> S3]

transfer(S, caller, to, value) == transfer_from_to(S, caller, to, value)

\* approve as it would be if it added value to the entry instead of
\* overwriting it.
approve_adding(S, caller, spender, value) ==
    LET S1 == [S EXCEPT !.allowances =
                   Insert(@, <<caller, spender>>,
                          Wrap(allowance(S, caller, spender) + value))]
        S2 == [S1 EXCEPT !.events = Append(@, Approval(caller, spender, value))]
    IN  [ret |-> Ok, st |-> S2]

approve(S, caller, spender, value) ==
    LET S1 == [S EXCEPT !.allowances = Insert(@, <<caller, spender>>, value)]
        S2 == [S1 EXCEPT !.events = Append(@, Approval(caller, spender, value))]
    IN  [ret |-> Ok, st |-> S2]

\* transfer_from as it would be if it wrote the allowance before moving the
\* tokens.
transfer_from_debit_first(S, caller, from, to, value) ==
    LET allowance_ == allowance(S, from, caller)
        S1 == [S EXCEPT !.allowances = Insert(@, <<from, to>>, allowance_ - value)]
    IN  IF allowance_ < value
        THEN [ret |-> "InsufficientAllowance", st |-> S]
        ELSE transfer_from_to(S1, from, to, value)

\* transfer_from as it would be if it moved the tokens before reading the
\* allowance.
transfer_from_balance_first(S, caller, from, to, value) ==
    LET allowance_ == allowance(S, from, caller)
        r == transfer_from_to(S, from, to, value)
    IN  IF r.ret # Ok
        THEN r
        ELSE IF allowance_ < value
        THEN [ret |-> "InsufficientAllowance", st |-> r.st]
        ELSE [ret |-> Ok,
              st |-> [r.st EXCEPT !.allowances =
                          Insert(@, <<from, to>>, allowance_ - value)]]

transfer_from(S, caller, from, to, value) ==
    LET allowance_ == allowance(S, from, caller)
        r == transfer_from_to(S, from, to, value)
    IN  IF allowance_ < value
        THEN [ret |-> "InsufficientAllowance", st |-> S]
        ELSE IF r.ret # Ok
        THEN r
        ELSE [ret |-> Ok,
              st |-> [r.st EXCEPT !.allowances =
                          Insert(@, <<from, to>>, allowance_ - value)]]

\* issue as it would be without the check of the caller.
issue_by_anyone(S, caller, amount) ==
    LET S1 == [S EXCEPT !.total_supply = Wrap(S.total_supply + amount)]
    IN  IF Overflows(S.total_supply + amount) /\ overflow_checks
        THEN [ret |-> Panic, st |-> S]
        ELSE transfer_from_to(S1, None, caller, amount)

issue(S, caller, amount) ==
    LET S1 == [S EXCEPT !.total_supply = Wrap(S.total_supply + amount)]
        r == transfer_from_to(S1, None, caller, amount)
    IN  IF caller # S.creater
        THEN [ret |-> "OnlyForCreater", st |-> S]
        ELSE IF Overflows(S.total_supply + amount) /\ overflow_checks
        THEN [ret |-> Panic, st |-> S]
        ELSE r

\* burn as it would be if it lowered total_supply before debiting the caller.
burn_supply_first(S, caller, amount) ==
    LET S1 == [S EXCEPT !.total_supply = Wrap(S.total_supply - amount)]
    IN  IF Overflows(S.total_supply - amount) /\ overflow_checks
        THEN [ret |-> Panic, st |-> S]
        ELSE transfer_from_to(S1, caller, None, amount)

burn(S, caller, amount) ==
    LET r == transfer_from_to(S, caller, None, amount)
        S1 == [r.st EXCEPT !.total_supply = Wrap(r.st.total_supply - amount)]
    IN  IF r.ret # Ok
        THEN r
        ELSE IF Overflows(r.st.total_supply - amount) /\ overflow_checks
        THEN [ret |-> Panic, st |-> r.st]
        ELSE [ret |-> Ok, st |-> S1]

----------------------------------------------------------------------------
\* The state machine

\* new as it would be if it recorded the supply without crediting the caller.
new_without_credit(caller, n, s, supply) ==
    /\ creater = caller
    /\ name = n
    /\ symbol = s
    /\ total_supply = supply
    /\ balances = EmptyMap
    /\ allowances = EmptyMap
    /\ events = <<Transfer(None, caller, supply)>>

\* Erc20::new(name, symbol, total_supply) called by `caller`.
new(caller, n, s, supply) ==
    /\ creater = caller
    /\ name = n
    /\ symbol = s
    /\ total_supply = supply
    /\ balances = Insert(EmptyMap, caller, supply)
    /\ allowances = EmptyMap
    /\ events = <<Transfer(None, caller, supply)>>

\* The ledger on its own: no Loan contract is deployed.
NoLoan ==
    /\ owner = None
    /\ base_token_accountid = None
    /\ borrowings_balance = 0
    /\ total_borrowings = 0

Init ==
    /\ \E caller \in Deployers, n \in Names, s \in Symbols, supply \in Balance :
           /\ new(caller, n, s, supply)
           /\ last = [op |-> "new", caller |-> caller,
                      args |-> [name |-> n, symbol |-> s, total_supply |-> supply],
                      ret |-> Ok]
    /\ overflow_checks \in BOOLEAN
    /\ calls = 0
    /\ NoLoan

\* The host runs one message to completion: it commits what the message left
\* in storage, or, when the message trapped, nothing.
Commit(r) == IF r.ret = Panic THEN Self ELSE r.st

Dispatch(op, caller, args, r) ==
    LET S == Commit(r)
    IN  /\ calls < MaxCalls
        /\ calls' = calls + 1
        /\ total_supply' = S.total_supply
        /\ balances' = S.balances
        /\ allowances' = S.allowances
        /\ events' = S.events
        /\ last' = [op |-> op, caller |-> caller, args |-> args, ret |-> r.ret]
        /\ UNCHANGED <<creater, name, symbol, overflow_checks>>
        /\ UNCHANGED <<owner, base_token_accountid, borrowings_balance,
                       total_borrowings>>

DoTransfer(caller, to, value) ==
    Dispatch("transfer", caller, [to |-> to, value |-> value],
             transfer(Self, caller, to, value))

DoApprove(caller, spender, value) ==
    Dispatch("approve", caller, [spender |-> spender, value |-> value],
             approve(Self, caller, spender, value))

DoTransferFrom(caller, from, to, value) ==
    Dispatch("transfer_from", caller,
             [from |-> from, to |-> to, value |-> value],
             transfer_from(Self, caller, from, to, value))

DoIssue(caller, amount) ==
    Dispatch("issue", caller, [amount |-> amount], issue(Self, caller, amount))

DoBurn(caller, amount) ==
    Dispatch("burn", caller, [amount |-> amount], burn(Self, caller, amount))

Next ==
    \/ \E caller \in AccountId, to \in AccountId, value \in Balance :
           DoTransfer(caller, to, value)
    \/ \E caller \in AccountId, spender \in AccountId, value \in Balance :
           DoApprove(caller, spender, value)
    \/ \E caller \in AccountId, from \in AccountId, to \in AccountId,
          value \in Balance :
           DoTransferFrom(caller, from, to, value)
    \/ \E caller \in AccountId, amount \in Balance : DoIssue(caller, amount)
    \/ \E caller \in AccountId, amount \in Balance : DoBurn(caller, amount)

Spec == Init /\ [][Next]_vars

----------------------------------------------------------------------------
\* The Loan contract (src/loan/lib.rs) over the ledger
\*
\* Loan.min_collateral_ratio, Loan.pledges and Loan.borrowings are created
\* empty by the constructor and no message reads or writes them; they are
\* left out.  Both contracts are built with the same overflow-checks setting.

\* Self::env().account_id() of the Loan contract.
LoanAccount == "loan"

\* The account the Erc20 contract is deployed at.
LedgerAccount == "erc20"

\* The identities that call the two contracts.
LoanUsers == {"alice", "bob"}

\* The accounts the ledger can name: the callers and the Loan contract.
LoanParties == LoanUsers \cup {LoanAccount}

SelfLoan ==
    [owner |-> owner, base_token_accountid |-> base_token_accountid,
     borrowings_balance |-> borrowings_balance,
     total_borrowings |-> total_borrowings]

LoanError == {"OnlyForOwner"}

\* The value of `re` in a message that made no call to the ledger.
NoCall == "NoCall"

loan_new(caller, token) ==
    /\ owner = caller
    /\ base_token_accountid = token
    /\ borrowings_balance = 0
    /\ total_borrowings = 0

\* L is the Loan storage and S the storage of the ledger at
\* L.base_token_accountid.  The result holds the message's return value, the
\* value `re` returned by the ledger, and both storages.  The ledger sees the
\* Loan contract as its caller.  A trap in the ledger traps the message.
recharge_for_borrowing_by_anyone(L, S, caller, amount) ==
    LET re == transfer_from(S, LoanAccount, caller, LoanAccount, amount)
        L1 == [L EXCEPT !.borrowings_balance = Wrap(@ + amount)]
    IN  IF re.ret = Panic
        THEN [ret |-> Panic, re |-> Panic, st |-> S, loan |-> L]
        ELSE IF Overflows(L.borrowings_balance + amount) /\ overflow_checks
        THEN [ret |-> Panic, re |-> re.ret, st |-> re.st, loan |-> L]
        ELSE [ret |-> Ok, re |-> re.ret, st |-> re.st, loan |-> L1]

recharge_for_borrowing(L, S, caller, amount) ==
    LET re == transfer_from(S, LoanAccount, caller, LoanAccount, amount)
        L1 == [L EXCEPT !.borrowings_balance = Wrap(@ + amount)]
    IN  IF caller # L.owner
        THEN [ret |-> "OnlyForOwner", re |-> NoCall, st |-> S, loan |-> L]
        ELSE IF re.ret = Panic
        THEN [ret |-> Panic, re |-> Panic, st |-> S, loan |-> L]
        ELSE IF Overflows(L.borrowings_balance + amount) /\ overflow_checks
        THEN [ret |-> Panic, re |-> re.ret, st |-> re.st, loan |-> L]
        ELSE [ret |-> Ok, re |-> re.ret, st |-> re.st, loan |-> L1]

\* The ledger is deployed, then the Loan contract with the ledger's account
\* as its token.
InitLoan ==
    /\ \E caller \in Deployers, n \in Names, s \in Symbols, supply \in Balance :
           /\ new(caller, n, s, supply)
           /\ last = [op |-> "new", caller |-> caller,
                      args |-> [name |-> n, symbol |-> s, total_supply |-> supply],
                      ret |-> Ok]
    /\ \E caller \in LoanUsers : loan_new(caller, LedgerAccount)
    /\ overflow_checks \in BOOLEAN
    /\ calls = 0

\* A message that trapped commits nothing in either contract.
DoRecharge(caller, amount) ==
    LET r == recharge_for_borrowing(SelfLoan, Self, caller, amount)
        S == IF r.ret = Panic THEN Self ELSE r.st
        L == IF r.ret = Panic THEN SelfLoan ELSE r.loan
    IN  /\ calls < MaxCalls
        /\ calls' = calls + 1
        /\ total_supply' = S.total_supply
        /\ balances' = S.balances
        /\ allowances' = S.allowances
        /\ events' = S.events
        /\ borrowings_balance' = L.borrowings_balance
        /\ total_borrowings' = L.total_borrowings
        /\ last' = [op |-> "recharge_for_borrowing", caller |-> caller,
                    args |-> [amount |-> amount], ret |-> r.ret, re |-> r.re]
        /\ UNCHANGED <<creater, name, symbol, overflow_checks, owner,
                       base_token_accountid>>

NextLoan ==
    \/ \E caller \in LoanUsers, to \in LoanParties, value \in Balance :
           DoTransfer(caller, to, value)
    \/ \E caller \in LoanUsers, spender \in LoanParties, value \in Balance :
           DoApprove(caller, spender, value)
    \/ \E caller \in LoanUsers, from \in LoanParties, to \in LoanParties,
          value \in Balance :
           DoTransferFrom(caller, from, to, value)
    \/ \E caller \in LoanUsers, amount \in Balance : DoIssue(caller, amount)
    \/ \E caller \in LoanUsers, amount \in Balance : DoBurn(caller, amount)
    \/ \E caller \in LoanUsers, amount \in Balance : DoRecharge(caller, amount)

SpecLoan == InitLoan /\ [][NextLoan]_vars

----------------------------------------------------------------------------
\* Definitions the claims share

Messages == {"transfer", "approve", "transfer_from", "issue", "burn"}

RECURSIVE SumOver(_, _)
SumOver(map, keys) ==
    IF keys = {}
    THEN 0
    ELSE LET k == CHOOSE x \in keys : TRUE
         IN  map[k] + SumOver(map, keys \ {k})

\* The sum of balances over all accounts, as an integer.
SumBalances(S) == SumOver(S.balances, DOMAIN S.balances)

\* The event log holds no Approval: no approve has been called.
NoApproveYet == \A i \in 1 .. Len(events) : events[i].event # "Approval"

----------------------------------------------------------------------------
\* C1: in every reachable state total_supply equals the sum of the balances
\* of all accounts.
\* Violated: in a build without overflow checks issue stores
\* (total_supply + amount) mod 2^Width while the creator's balance, smaller
\* than total_supply after a transfer, is credited without wrapping.
C1_SupplyIsSumOfBalances == total_supply = SumBalances(Self)

\* C2: a successful transfer_from(from, to, value) leaves allowance(from,
\* caller) equal to its value before the call minus value, also when to
\* differs from the caller.
\* Violated: the code writes the entry keyed by <<from, to>>.
C2_TransferFromDebitsCaller ==
    [][(last'.op = "transfer_from" /\ last'.ret = Ok) =>
           allowance(Self', last'.args.from, last'.caller) =
               allowance(Self, last'.args.from, last'.caller) - last'.args.value]_vars

\* C3: right after owner's approve(spender, v), v > 0, spender other than
\* owner, with owner's balance at least v, transfer_from(owner, to, v) by spender succeeds and raises
\* balance_of(to) by v (to other than owner), and the identical call made
\* next by the same spender fails with InsufficientAllowance.
\* Violated: with to other than spender the spender's allowance is still v
\* after the first call, so the second call passes the allowance check.
C3_SpenderCannotExceedApproval ==
    [][(/\ last.op = "approve"
        /\ last.args.value > 0
        /\ last.args.spender # last.caller
        /\ balance_of(Self, last.caller) >= last.args.value
        /\ last'.op = "transfer_from"
        /\ last'.caller = last.args.spender
        /\ last'.args.from = last.caller
        /\ last'.args.to # last.caller
        /\ last'.args.value = last.args.value) =>
           /\ last'.ret = Ok
           /\ balance_of(Self', last'.args.to) =
                  balance_of(Self, last'.args.to) + last'.args.value
           /\ transfer_from(Self', last'.caller, last'.args.from, last'.args.to,
                            last'.args.value).ret = "InsufficientAllowance"]_vars

\* C4: the allowance of <<o, s>> changes only in a step that is approve(s, _)
\* called by o or a successful transfer_from(o, _, _) called by s.
\* Violated: a successful transfer_from(o, s, v) called by another spender
\* overwrites the allowance of <<o, s>>.
C4_AllowanceChangesOnlyByOwnerOrSpender ==
    [][\A o \in AccountId, s \in AccountId :
           allowance(Self', o, s) # allowance(Self, o, s) =>
               \/ /\ last'.op = "approve"
                  /\ last'.caller = o
                  /\ last'.args.spender = s
               \/ /\ last'.op = "transfer_from"
                  /\ last'.ret = Ok
                  /\ last'.args.from = o
                  /\ last'.caller = s]_vars

\* C5: a transfer, transfer_from, issue or burn that returns an error leaves
\* balances, allowances, total_supply and the event log as they were; a
\* transfer_from that fails with InsufficientBalance consumes no allowance.
C5_FailedCallChangesNothing ==
    /\ \A c \in AccountId, to \in AccountId, v \in Balance :
           LET r == transfer(Self, c, to, v)
           IN  r.ret \in Error => r.st = Self
    /\ \A c \in AccountId, f \in AccountId, to \in AccountId, v \in Balance :
           LET r == transfer_from(Self, c, f, to, v)
           IN  r.ret \in Error => r.st = Self
    /\ \A c \in AccountId, v \in Balance :
           /\ LET r == issue(Self, c, v) IN r.ret \in Error => r.st = Self
           /\ LET r == burn(Self, c, v) IN r.ret \in Error => r.st = Self

\* A transfer_from has just failed with InsufficientBalance although the
\* caller's allowance covered the value.
C5_Witness ==
    /\ last.op = "transfer_from"
    /\ last.ret = "InsufficientBalance"
    /\ last.args.value > 0
    /\ last.caller # last.args.from
    /\ allowance(Self, last.args.from, last.caller) >= last.args.value

\* C6: transfer(to, value) by c, to other than c: with balance_of(c) < value
\* it fails with InsufficientBalance; otherwise it succeeds, balance_of(c)
\* falls by value, balance_of(to) rises by value, and every other balance,
\* every allowance and total_supply are unchanged.
\* Violated: once issue has wrapped total_supply the balances sum to more
\* than MaxBalance, and the credit of a transfer overflows.
C6_TransferMovesExactlyValue ==
    \A c \in AccountId, to \in AccountId, v \in Balance :
        LET r == transfer(Self, c, to, v)
        IN  to = c \/
            IF balance_of(Self, c) < v
            THEN r.ret = "InsufficientBalance"
            ELSE /\ r.ret = Ok
                 /\ balance_of(r.st, c) = balance_of(Self, c) - v
                 /\ balance_of(r.st, to) = balance_of(Self, to) + v
                 /\ \A a \in AccountId \ {c, to} :
                        balance_of(r.st, a) = balance_of(Self, a)
                 /\ r.st.allowances = Self.allowances
                 /\ r.st.total_supply = Self.total_supply

\* C7: transfer_from(from, to, value) by c fails with InsufficientAllowance
\* whenever allowance(from, c) < value, whatever the balance of from; it
\* fails with InsufficientBalance only when allowance(from, c) >= value and
\* balance_of(from) < value; and as long as nobody has called approve it
\* fails with InsufficientAllowance for every value > 0.
C7_AllowanceCheckedBeforeBalance ==
    \A c \in AccountId, f \in AccountId, to \in AccountId, v \in Balance :
        LET r == transfer_from(Self, c, f, to, v)
        IN  /\ allowance(Self, f, c) < v => r.ret = "InsufficientAllowance"
            /\ r.ret = "InsufficientBalance" =>
                   allowance(Self, f, c) >= v /\ balance_of(Self, f) < v
            /\ (NoApproveYet /\ v > 0) => r.ret = "InsufficientAllowance"

\* A transfer_from of a value the owner's balance covers has just failed
\* with InsufficientAllowance, nobody having called approve.
C7_Witness ==
    /\ last.op = "transfer_from"
    /\ last.ret = "InsufficientAllowance"
    /\ NoApproveYet
    /\ balance_of(Self, last.args.from) >= last.args.value
    /\ last.caller # last.args.from

\* C8: approve(spender, value) by c never fails, whatever c's balance, and
\* sets allowance(c, spender) to exactly value: approve(s, a) followed by
\* approve(s, b) yields allowance(c, s) = b; balances and total_supply are
\* unchanged.
C8_ApproveOverwrites ==
    \A c \in AccountId, s \in AccountId, a \in Balance :
        LET r == approve(Self, c, s, a)
        IN  /\ r.ret = Ok
            /\ allowance(r.st, c, s) = a
            /\ r.st.balances = Self.balances
            /\ r.st.total_supply = Self.total_supply
            /\ \A b \in Balance :
                   LET r2 == approve(r.st, c, s, b)
                   IN  r2.ret = Ok /\ allowance(r2.st, c, s) = b

\* The last two messages were approve(s, a) and approve(s, b) by the same
\* caller, a and b positive and different, b above the caller's balance.
C8_Witness ==
    /\ Len(events) = 3
    /\ last.op = "approve"
    /\ events[2] = Approval(last.caller, last.args.spender, events[2].value)
    /\ events[3] = Approval(last.caller, last.args.spender, last.args.value)
    /\ events[2].value > 0
    /\ last.args.value > 0
    /\ events[2].value # last.args.value
    /\ balance_of(Self, last.caller) < last.args.value
    /\ allowance(Self, last.caller, last.args.spender) = last.args.value

\* C9: issue(amount) by the creator succeeds and raises total_supply and the
\* creator's balance by exactly amount, every other balance and every
\* allowance unchanged; burn(amount) by a caller whose balance is at least
\* amount lowers total_supply and the caller's balance by exactly amount.
\* Violated: total_supply + amount beyond MaxBalance wraps or panics.
C9_IssueAndBurnChangeSupplyByAmount ==
    /\ \A amount \in Balance :
           LET r == issue(Self, creater, amount)
           IN  /\ r.ret = Ok
               /\ r.st.total_supply = Self.total_supply + amount
               /\ balance_of(r.st, creater) = balance_of(Self, creater) + amount
               /\ \A a \in AccountId \ {creater} :
                      balance_of(r.st, a) = balance_of(Self, a)
               /\ r.st.allowances = Self.allowances
    /\ \A c \in AccountId, amount \in Balance :
           balance_of(Self, c) >= amount =>
               LET r == burn(Self, c, amount)
               IN  /\ r.ret = Ok
                   /\ r.st.total_supply = Self.total_supply - amount
                   /\ balance_of(r.st, c) = balance_of(Self, c) - amount

\* C10: issue(amount) by any identity other than the creator fails with
\* OnlyForCreater for every amount, 0 included, and total_supply and all
\* balances are unchanged.
C10_IssueOnlyForCreater ==
    \A c \in AccountId \ {creater}, amount \in Balance :
        LET r == issue(Self, c, amount)
        IN  /\ r.ret = "OnlyForCreater"
            /\ r.st.total_supply = Self.total_supply
            /\ r.st.balances = Self.balances

\* An issue by somebody other than the creator has just failed.
C10_Witness ==
    /\ last.op = "issue"
    /\ last.caller # creater
    /\ last.ret = "OnlyForCreater"
    /\ last.args.amount > 0
    /\ total_supply + last.args.amount <= MaxBalance

\* C11: burn(amount) by a caller whose balance is less than amount fails
\* with InsufficientBalance and leaves total_supply untouched; burn needs no
\* allowance (its result is the same with every allowance removed) and
\* debits no account other than the caller.
C11_BurnDebitsOnlyCaller ==
    \A c \in AccountId, amount \in Balance :
        LET r == burn(Self, c, amount)
            r0 == burn([Self EXCEPT !.allowances = EmptyMap], c, amount)
        IN  /\ balance_of(Self, c) < amount =>
                   /\ r.ret = "InsufficientBalance"
                   /\ r.st.total_supply = Self.total_supply
            /\ r0.ret = r.ret
            /\ r.st.allowances = Self.allowances
            /\ \A a \in AccountId \ {c} :
                   balance_of(r.st, a) = balance_of(Self, a)

\* A burn of an amount that total_supply covers has just failed with
\* InsufficientBalance, other accounts holding tokens.
C11_Witness ==
    /\ last.op = "burn"
    /\ last.ret = "InsufficientBalance"
    /\ total_supply >= last.args.amount
    /\ \E a \in AccountId \ {last.caller} : balance_of(Self, a) > 0

\* C12: immediately after new(name, symbol, s) called by A, total_supply is
\* s, balance_of(A) is s, every other balance and every allowance is 0, the
\* creator is A, and the event log holds exactly Transfer(none, A, s).
C12_StateAfterNew ==
    last.op = "new" =>
        /\ total_supply = last.args.total_supply
        /\ creater = last.caller
        /\ name = last.args.name
        /\ symbol = last.args.symbol
        /\ balance_of(Self, last.caller) = last.args.total_supply
        /\ \A a \in AccountId \ {last.caller} : balance_of(Self, a) = 0
        /\ \A o \in AccountId, s \in AccountId : allowance(Self, o, s) = 0
        /\ events = <<Transfer(None, last.caller, last.args.total_supply)>>

\* The contract has just been constructed with a positive supply.
C12_Witness ==
    /\ last.op = "new"
    /\ calls = 0
    /\ last.args.total_supply > 0
    /\ name = "xDOT"
    /\ symbol = "DOT"

(* C13: every stored balance, allowance and the total supply is an Amount   *)
(* (never negative, never above the maximum), and none of the subtractions  *)
(* from_balance - value, allowance - value, total_supply - amount is        *)
(* executed with a subtrahend above its minuend: a call that returns Ok had *)
(* every minuend at least as large as what was taken from it.               *)
C13_NoSubtractionBelowZero ==
    /\ total_supply \in Balance
    /\ \A a \in AccountId : balance_of(Self, a) \in Balance
    /\ \A o \in AccountId, s \in AccountId : allowance(Self, o, s) \in Balance
    /\ \A c \in AccountId, to \in AccountId, v \in Balance :
           transfer(Self, c, to, v).ret = Ok => balance_of(Self, c) >= v
    /\ \A c \in AccountId, f \in AccountId, to \in AccountId, v \in Balance :
           transfer_from(Self, c, f, to, v).ret = Ok =>
               /\ allowance(Self, f, c) >= v
               /\ balance_of(Self, f) >= v
    /\ \A c \in AccountId, amount \in Balance :
           burn(Self, c, amount).ret = Ok =>
               /\ balance_of(Self, c) >= amount
               /\ total_supply >= amount

(* C14: an issue by the creator whose total_supply + amount exceeds the     *)
(* largest Amount is rejected (it does not return Ok) and leaves the total  *)
(* supply and every balance as they were; an issue that returns Ok stored   *)
(* the true sums, never a wrapped value, in both the total supply and the   *)
(* creator's balance.                                                       *)
C14_IssueRejectsOverflow ==
    \A amount \in Balance :
        LET r == issue(Self, creater, amount)
        IN  /\ total_supply + amount > MaxBalance =>
                   /\ r.ret # Ok
                   /\ Commit(r).total_supply = total_supply
                   /\ Commit(r).balances = balances
            /\ r.ret = Ok =>
                   /\ r.st.total_supply = total_supply + amount
                   /\ balance_of(r.st, creater) = balance_of(Self, creater) + amount

(* The one notification a successful message appends, by the message and    *)
(* its arguments.                                                           *)
NotificationOf(l) ==
    CASE l.op = "transfer"      -> Transfer(l.caller, l.args.to, l.args.value)
      [] l.op = "transfer_from" -> Transfer(l.args.from, l.args.to, l.args.value)
      [] l.op = "issue"         -> Transfer(None, l.caller, l.args.amount)
      [] l.op = "burn"          -> Transfer(l.caller, None, l.args.amount)
      [] l.op = "approve"       -> Approval(l.caller, l.args.spender, l.args.value)

(* C15: the notification log is append-only: a message that returns Ok      *)
(* appends exactly one entry and any other message appends none.  The entry *)
(* is Transfer with the message's endpoints (from absent for issue, to      *)
(* absent for burn) or, for approve, Approval(caller, spender, value);      *)
(* transfer_from appends a Transfer and no Approval.                        *)
C15_LogGrowsByOnePerSuccess ==
    [][events' = IF last'.ret = Ok
                 THEN Append(events, NotificationOf(last'))
                 ELSE events]_vars

C15_Witness ==
    /\ last.op = "transfer_from"
    /\ last.ret = Ok
    /\ last.args.value > 0
    /\ Len(events) = 3
    /\ events[2] = Approval(last.args.from, last.caller, events[2].value)
    /\ events[3] = Transfer(last.args.from, last.args.to, last.args.value)

(* C18: no message changes creater, name or symbol; transfer, transfer_from *)
(* and approve leave total_supply as it was; total_supply rises only in an  *)
(* issue by the creator that returned Ok; a burn lowers it or leaves it,    *)
(* both the burn just executed and any burn accepted in the state reached.  *)
C18_SupplyRisesOnlyByIssue ==
    [][/\ creater' = creater
       /\ name' = name
       /\ symbol' = symbol
       /\ last'.op \in {"transfer", "transfer_from", "approve"} =>
              total_supply' = total_supply
       /\ total_supply' > total_supply =>
              /\ last'.op = "issue"
              /\ last'.caller = creater
              /\ last'.ret = Ok
       /\ \A c \in AccountId, amount \in Balance :
              LET r == burn(Self', c, amount)
              IN  r.ret = Ok => r.st.total_supply <= total_supply']_vars

(* Whether the i-th notification is an Approval by owner o for spender s.   *)
IsApprovalOf(i, o, s) ==
    /\ events[i].event = "Approval"
    /\ events[i].owner = o
    /\ events[i].spender = s

(* C19: a positive allowance(o, s) was granted by o: the log holds an       *)
(* Approval(o, s, v) with v > 0, and the allowance does not exceed the      *)
(* value of o's most recent approve for s.                                  *)
C19_AllowanceOnlyFromOwnerApprove ==
    \A o \in AccountId, s \in AccountId :
        allowance(Self, o, s) > 0 =>
            /\ \E i \in 1 .. Len(events) :
                   IsApprovalOf(i, o, s) /\ events[i].value > 0
            /\ \A i \in 1 .. Len(events) :
                   (/\ IsApprovalOf(i, o, s)
                    /\ \A j \in (i + 1) .. Len(events) : ~IsApprovalOf(j, o, s))
                   => allowance(Self, o, s) <= events[i].value

(* C20: a transfer to oneself is balance-neutral: transfer(to = caller,     *)
(* value) with balance >= value, and transfer_from(from, to = from, value)  *)
(* with allowance(from, caller) >= value and balance(from) >= value, return *)
(* Ok and leave every balance and total_supply as they were.                *)
C20_SelfTransferIsNeutral ==
    /\ \A c \in AccountId, v \in Balance :
           balance_of(Self, c) >= v =>
               LET r == transfer(Self, c, c, v)
               IN  /\ r.ret = Ok
                   /\ r.st.total_supply = total_supply
                   /\ \A a \in AccountId : balance_of(r.st, a) = balance_of(Self, a)
    /\ \A c \in AccountId, f \in AccountId, v \in Balance :
           (allowance(Self, f, c) >= v /\ balance_of(Self, f) >= v) =>
               LET r == transfer_from(Self, c, f, f, v)
               IN  /\ r.ret = Ok
                   /\ r.st.total_supply = total_supply
                   /\ \A a \in AccountId : balance_of(r.st, a) = balance_of(Self, a)

C20_Witness ==
    /\ last.op = "transfer_from"
    /\ last.ret = Ok
    /\ last.args.to = last.args.from
    /\ last.caller # last.args.from
    /\ last.args.value > 0
    /\ balance_of(Self, last.args.from) >= last.args.value
    /\ total_supply = last.args.value

(* C16: whenever recharge_for_borrowing(amount) by the Loan owner returns   *)
(* Ok, the ledger's transfer_from(owner, loan contract, amount) returned Ok *)
(* and the Loan contract's ledger balance and borrowings_balance both rose  *)
(* by amount; borrowings_balance never rises when the ledger rejected the   *)
(* pull.                                                                    *)
C16_RechargeOnlyAfterPull ==
    [][last'.op = "recharge_for_borrowing" =>
           /\ last'.ret = Ok =>
                  /\ last'.re = Ok
                  /\ balance_of(Self', LoanAccount) =
                         balance_of(Self, LoanAccount) + last'.args.amount
                  /\ borrowings_balance' = borrowings_balance + last'.args.amount
           /\ last'.re \in Error => borrowings_balance' = borrowings_balance]_vars

(* C17: recharge_for_borrowing by anyone but the Loan owner returns         *)
(* OnlyForOwner, makes no call to the ledger, and leaves borrowings_balance,*)
(* total_borrowings and the ledger's storage and log as they were.          *)
C17_RechargeOnlyForOwner ==
    \A c \in LoanParties \ {owner}, amount \in Balance :
        LET r == recharge_for_borrowing(SelfLoan, Self, c, amount)
        IN  /\ r.ret = "OnlyForOwner"
            /\ r.re = NoCall
            /\ r.loan = SelfLoan
            /\ r.st = Self

C17_Witness ==
    /\ last.op = "recharge_for_borrowing"
    /\ last.caller # owner
    /\ last.ret = "OnlyForOwner"
    /\ last.args.amount > 0
    /\ allowance(Self, last.caller, LoanAccount) >= last.args.amount
    /\ balance_of(Self, last.caller) >= last.args.amount
    /\ balance_of(Self, LoanAccount) = 0
    /\ borrowings_balance = 0

(* The value of o's most recent approve for s in the log, 0 when o never    *)
(* approved s.                                                              *)
LastApproved(o, s) ==
    LET given == {i \in 1 .. Len(events) : IsApprovalOf(i, o, s)}
    IN  IF given = {} THEN 0
        ELSE events[CHOOSE i \in given : \A j \in given : j <= i].value

(* C21: a recharge_for_borrowing by the Loan owner whose pull the ledger    *)
(* accepted lowered allowance(owner, loan contract) by amount; one with     *)
(* allowance(owner, loan contract) < amount is rejected by the ledger with  *)
(* InsufficientAllowance and moves no tokens; and no accepted pull moves    *)
(* more than the owner approved to the loan contract.                       *)
C21_PullsBoundedByApproval ==
    \A amount \in Balance :
        LET r == recharge_for_borrowing(SelfLoan, Self, owner, amount)
        IN  /\ r.re = Ok =>
                   allowance(r.st, owner, LoanAccount) =
                       allowance(Self, owner, LoanAccount) - amount
            /\ allowance(Self, owner, LoanAccount) < amount =>
                   /\ r.re = "InsufficientAllowance"
                   /\ r.st.balances = balances
            /\ r.re = Ok => amount <= LastApproved(owner, LoanAccount)

====
